---- MODULE Spec2Model ----
(***************************************************************************)
(* A model of src/src/signal.ts: reactive cells (signal), memoised derived *)
(* computations (computed), effects and batches, with the three context    *)
(* stacks the library keeps at module scope.                               *)
(*                                                                         *)
(* The library is synchronous and re-entrant: one top-level call runs      *)
(* user functions which call the library again.  A top-level call is one   *)
(* action; the nested calls are the recursive operators below, which       *)
(* thread a record S holding the whole program state.  User functions      *)
(* (effect bodies, computed functions) are small instruction lists.        *)
(***************************************************************************)
EXTENDS Integers, Sequences, FiniteSets, TLC

\* ------------------------------------------------------------------ bounds
MaxVal == 2        \* cells hold numbers 0..MaxVal
MaxWrites == 2     \* top-level set/update/mutate calls in one behaviour
MaxEffects == 2    \* effect(...) calls made by the top level
MaxBatch == 2      \* nesting depth of batchSet calls
MaxNest == 4       \* nested trigger invocations the call stack can hold
MaxDestroys == 2   \* destroy() calls the top level makes on one EffectRef

Cells == {"a", "b"}
Val == 0..MaxVal
NoValue == 0 - 1
NoError == "none"
IllegalWrite == "Can't update a signal from an effect"
StackOverflow == "Maximum call stack size exceeded"

\* ------------------------------------------------- user functions as data
Ins(op, c, k) == [op |-> op, c |-> c, k |-> k]
Rd(c) == Ins("rd", c, 0)             \* c()
RdC(k) == Ins("rdc", "a", k)         \* read of the top-level computed number k
NewC(d) == Ins("newc", d, 0)         \* computed(fn_d)() : create and read
SetTo(c, v) == Ins("set", c, v)      \* c.set(v)
Upd(c) == Ins("upd", c, 0)           \* c.update(x => x + 1)
Mut(c) == Ins("mut", c, 0)           \* c.mutate(x => ...)
Child(d) == Ins("child", d, 0)       \* effect(fn_d, options_d)
Log == Ins("log", "a", 0)            \* result.push(<sum of the values read>)
Guard == Ins("guard", "a", 0)        \* if (<sum of the values read> == 0) return

\* functions given to computed(...)
ComputedDefs ==
  [ cA    |-> << Rd("a") >>,
    cB    |-> << Rd("b") >>,
    cAB   |-> << Rd("a"), Rd("b") >>,
    dRead |-> << Rd("a"), RdC(1) >>,
    dNew  |-> << Rd("a"), NewC("cB") >> ]

\* the computeds the top level declares, in this order
TopComputeds == << "cB", "cAB", "dRead", "dNew" >>

\* functions and options given to effect(...)
EffectDefs ==
  [ eA      |-> [fn |-> << Rd("a"), Log >>,                allowSignalWrites |-> FALSE],
    eB      |-> [fn |-> << Rd("b"), Log >>,                allowSignalWrites |-> FALSE],
    eAB     |-> [fn |-> << Rd("a"), Rd("b"), Log >>,       allowSignalWrites |-> FALSE],
    eC      |-> [fn |-> << RdC(2), Log >>,                 allowSignalWrites |-> FALSE],
    eCC     |-> [fn |-> << RdC(2), RdC(2), Rd("a"), Log >>, allowSignalWrites |-> FALSE],
    eD      |-> [fn |-> << RdC(3), Log >>,                 allowSignalWrites |-> FALSE],
    eParent |-> [fn |-> << Rd("a"), Log, Child("eB") >>,   allowSignalWrites |-> FALSE],
    eW      |-> [fn |-> << Rd("a"), SetTo("b", 1), Log >>, allowSignalWrites |-> FALSE],
    eU      |-> [fn |-> << Upd("b"), Log >>,               allowSignalWrites |-> FALSE],
    eWA     |-> [fn |-> << Rd("a"), SetTo("b", 1), Log >>, allowSignalWrites |-> TRUE],
    eCondW  |-> [fn |-> << Rd("a"), Log, Guard, SetTo("b", 1) >>,
                                                         allowSignalWrites |-> FALSE],
    eCondR  |-> [fn |-> << Rd("a"), Guard, Rd("b"), Log >>, allowSignalWrites |-> FALSE],
    eM      |-> [fn |-> << Rd("a"), Mut("b"), Log >>,      allowSignalWrites |-> FALSE] ]

\* ----------------------------------------------------------------- state
VARIABLES
  current,               \* signal: let current            (per cell)
  triggers,              \* signal: const triggers (a Set, kept in insertion order)
  cacheInvalidators,     \* signal: const cacheInvalidators (computed ids)
  comps,                 \* every computed created so far
  effs,                  \* every effect created so far
  effectContextStack,
  computedContextStack,
  batchContextStack,
  thrown,                \* what the last top-level call threw, or NoError
  handles,               \* EffectRefs the top level holds
  destroyed,             \* EffectRefs on which the top level has called destroy()
  ninv,                  \* number of cacheInvalidation() calls made so far
  nwrites                \* number of top-level write calls made so far

vars == << current, triggers, cacheInvalidators, comps, effs, effectContextStack,
           computedContextStack, batchContextStack, thrown, handles,
           destroyed, ninv, nwrites >>

\* --------------------------------------------------------------- helpers
Front(s) == SubSeq(s, 1, Len(s) - 1)
Top(s) == s[Len(s)]
Range(s) == { s[i] : i \in 1..Len(s) }
Remove(s, p) == SubSeq(s, 1, p - 1) \o SubSeq(s, p + 1, Len(s))
IndexOf(s, x) == IF \E i \in 1..Len(s) : s[i] = x
                 THEN CHOOSE i \in 1..Len(s) : s[i] = x ELSE 0
\* Faulty variant, for comparison: an array push instead of Set.prototype.add
SetAdd_push(s, x) == Append(s, x)

\* Set.prototype.add on an insertion-ordered set
SetAdd(s, x) == IF x \in Range(s) THEN s ELSE Append(s, x)

\* The whole program state as one record, threaded through nested calls.
\* err is the exception being propagated (NoError when none), ret the value
\* the last nested call returned, iters the cursors of the triggers.forEach
\* loops that are running (a JS Set is iterated live).
State ==
  [ current |-> current, triggers |-> triggers,
    cacheInvalidators |-> cacheInvalidators, comps |-> comps, effs |-> effs,
    effectContextStack |-> effectContextStack,
    computedContextStack |-> computedContextStack,
    batchContextStack |-> batchContextStack,
    ninv |-> ninv, nwrites |-> nwrites,
    err |-> NoError, ret |-> NoValue, iters |-> << >> ]

\* computed(fn): let hasCache = false; let cached; context.onLateEffects = [].
\* evals counts the calls of fn, periods the dirty periods begun so far.
NewComputed(d) ==
  [ def |-> d, hasCache |-> FALSE, cached |-> NoValue, onLateEffects |-> << >>,
    evals |-> 0, periods |-> 1 ]

\* effect(fn, options): the EffectContext {trigger, onDestroy: [], options,
\* childEffects}.  runs counts the executions of fn, log is what fn pushed;
\* attempts / rejected count the set and update calls fn made / that threw;
\* cold says that no computed the body reaches was cached when the effect
\* was created, born how many top-level writes had been made by then;
\* ranAt is the rank of the latest execution of fn among all executions of
\* effect bodies, firstSub[c] the rank of the first registration of the
\* trigger on cell c among all registrations (0: none yet), lastRead the
\* cells the latest execution of fn read itself, destroyedAt the value of
\* runs at each destroy() call made on the effect.
NewEffect(d, cold, born) ==
  [ def |-> d, onDestroy |-> << >>, childEffects |-> << >>,
    runs |-> 0, log |-> << >>, attempts |-> 0, rejected |-> 0,
    cold |-> cold, born |-> born,
    ranAt |-> 0, firstSub |-> [c \in Cells |-> 0], lastRead |-> {},
    destroyedAt |-> << >> ]

\* the number of executions of effect bodies begun so far
TotalRuns(S) ==
  LET F[i \in 0..Len(S.effs)] == IF i = 0 THEN 0 ELSE F[i - 1] + S.effs[i].runs
  IN  F[Len(S.effs)]

\* the number of registrations of a trigger on a cell made so far (each one
\* pushes one callback on an onDestroy list)
TotalSubs(S) ==
  LET F[i \in 0..Len(S.effs)] ==
        IF i = 0 THEN 0 ELSE F[i - 1] + Len(S.effs[i].onDestroy)
  IN  F[Len(S.effs)]

\* options?.equal ?? ((a, b) => a === b); cell b is created with
\* {equal: (x, y) => x % 2 === y % 2}, cell a without options.
isEqual(c, x, y) == IF c = "b" THEN x % 2 = y % 2 ELSE x = y

\* the function the top level passes to update
updateFn(f, x) == IF f = "inc" THEN (x + 1) % (MaxVal + 1) ELSE x

\* triggers.add(trigger); effectContext.onDestroy.push(() => triggers.delete(trigger))
Subscribe(S, c, e) ==
  [S EXCEPT !.triggers[c] = SetAdd(@, e),
            !.effs[e].onDestroy = Append(@, c),
            !.effs[e].firstSub[c] = IF @ = 0 THEN TotalSubs(S) + 1 ELSE @]

\* const getter = function () {...}: the state change of reading cell c
getter(S, c) ==
  LET ectx == S.effectContextStack
      cctx == S.computedContextStack
      S1   == IF Len(ectx) > 0 THEN Subscribe(S, c, Top(ectx)) ELSE S
      occ(k) == Cardinality({ i \in 1..Len(cctx) : cctx[i] = k })
  IN  [S1 EXCEPT
         !.cacheInvalidators[c] = @ \o cctx,
         !.comps = [k \in DOMAIN @ |->
                      [@[k] EXCEPT !.onLateEffects =
                                      @ \o [i \in 1..occ(k) |-> c]]]]

\* Faulty variant, for comparison: an array splice(indexOf(trigger), 1),
\* which removes the last entry when the trigger is not there
TriggersDelete_splice(S, c, e) ==
  LET n == Len(S.triggers[c])
      p == IF IndexOf(S.triggers[c], e) = 0 THEN n ELSE IndexOf(S.triggers[c], e)
  IN  IF n = 0 THEN S ELSE [S EXCEPT !.triggers[c] = Remove(@, p)]

\* triggers.delete(trigger); a running forEach over the same Set does not
\* skip or repeat an entry because of it
TriggersDelete(S, c, e) ==
  LET p == IndexOf(S.triggers[c], e) IN
  IF p = 0 THEN S
  ELSE [S EXCEPT
          !.triggers[c] = Remove(@, p),
          !.iters = [i \in DOMAIN @ |->
                       IF @[i].cell = c /\ @[i].idx >= p
                       THEN [@[i] EXCEPT !.idx = @ - 1] ELSE @[i]]]

RECURSIVE RunOnDestroy(_, _, _)
RunOnDestroy(S, e, i) ==
  IF i > Len(S.effs[e].onDestroy) THEN S
  ELSE RunOnDestroy(TriggersDelete(S, S.effs[e].onDestroy[i], e), e, i + 1)

\* Faulty variant, for comparison: a destroy that also takes the trigger
\* out of the pending sets of the open batches
destroy_cancel(S, e) ==
  [RunOnDestroy(S, e, 1) EXCEPT
     !.effs[e].destroyedAt = Append(@, S.effs[e].runs),
     !.batchContextStack =
        [i \in DOMAIN @ |->
           [triggers |-> SelectSeq(@[i].triggers, LAMBDA x : x # e)]]]

\* Faulty variant, for comparison: a destroy that unregisters nothing
destroy_nothing(S, e) ==
  [S EXCEPT !.effs[e].destroyedAt = Append(@, S.effs[e].runs)]

\* effectRef.destroy(): effectContext.onDestroy?.forEach(cb => cb())
destroy(S, e) ==
  [RunOnDestroy(S, e, 1) EXCEPT !.effs[e].destroyedAt = Append(@, S.effs[e].runs)]

RECURSIVE DestroyEach(_, _, _)
DestroyEach(S, list, i) ==
  IF i > Len(list) THEN S ELSE DestroyEach(destroy(S, list[i]), list, i + 1)

\* cacheInvalidators.forEach((fn) => fn()), each fn being hasCache = false
InvalidateAll(S, c) ==
  LET inv == S.cacheInvalidators[c] IN
  [S EXCEPT
     !.ninv = @ + Len(inv),
     !.comps = [k \in DOMAIN @ |->
                  IF k \in Range(inv)
                  THEN [@[k] EXCEPT !.hasCache = FALSE,
                                    !.periods = IF S.comps[k].hasCache THEN @ + 1 ELSE @]
                  ELSE @[k]]]

\* Faulty variant, for comparison: the newly pending triggers go first
AddAll_front(s, t) == SelectSeq(t, LAMBDA x : x \notin Range(s)) \o s

\* triggers.forEach(trigger => batchContext.triggers.add(trigger))
AddAll(s, t) == s \o SelectSeq(t, LAMBDA x : x \notin Range(s))

\* set: effectContext != null && effectContext.options?.allowSignalWrites !== true
WriteForbidden(S) ==
  /\ Len(S.effectContextStack) > 0
  /\ ~ EffectDefs[S.effs[Top(S.effectContextStack)].def].allowSignalWrites

\* the top-level computeds a function reaches, through other computeds too
RECURSIVE ReachComps(_)
ReachComps(body) ==
  UNION { IF body[i].op = "rdc"
          THEN {body[i].k} \cup ReachComps(ComputedDefs[TopComputeds[body[i].k]])
          ELSE {} : i \in 1..Len(body) }

\* the cells a function reaches, directly or through computeds
RECURSIVE ReachCells(_)
ReachCells(body) ==
  UNION { CASE body[i].op = "rd"   -> {body[i].c}
            [] body[i].op = "rdc"  -> ReachCells(ComputedDefs[TopComputeds[body[i].k]])
            [] body[i].op = "newc" -> ReachCells(ComputedDefs[body[i].c])
            [] OTHER -> {} : i \in 1..Len(body) }

\* ------------------------------------------------- the re-entrant library
RECURSIVE RunFn(_, _, _, _, _)
RECURSIVE read(_, _)
RECURSIVE set(_, _, _)
RECURSIVE propagateChanges(_, _)
RECURSIVE ForEachTrigger(_, _)
RECURSIVE trigger(_, _)
RECURSIVE effect(_, _)

\* fn(), for the fn of effect e: one execution of the effect's body
EffectFn(S, e) ==
  RunFn([S EXCEPT !.effs[e].runs = @ + 1,
                  !.effs[e].ranAt = TotalRuns(S) + 1,
                  !.effs[e].lastRead = {}],
        EffectDefs[S.effs[e].def].fn, 1, 0, e)

\* Faulty variant, for comparison: a read that ignores the cache
read_uncached(S, k) ==
  LET S1 == [S EXCEPT !.computedContextStack = Append(@, k),
                      !.comps[k].evals = @ + 1]
      S2 == RunFn(S1, ComputedDefs[S.comps[k].def], 1, 0, 0)
  IN  IF S2.err # NoError THEN S2
      ELSE [S2 EXCEPT !.comps[k].cached = S2.ret,
                      !.comps[k].hasCache = TRUE,
                      !.computedContextStack = Front(@)]

\* the function returned by computed(fn): a read of computed k
read(S, k) ==
  IF S.comps[k].hasCache
  THEN LET ectx == S.effectContextStack
           late == S.comps[k].onLateEffects
           Bind[i \in 0..Len(late)] ==
             IF i = 0 THEN S ELSE Subscribe(Bind[i - 1], late[i], Top(ectx))
       IN  [(IF Len(ectx) > 0 THEN Bind[Len(late)] ELSE S)
              EXCEPT !.ret = S.comps[k].cached]
  ELSE LET S1 == [S EXCEPT !.computedContextStack = Append(@, k),
                           !.comps[k].evals = @ + 1]
           S2 == RunFn(S1, ComputedDefs[S.comps[k].def], 1, 0, 0)
       IN  IF S2.err # NoError THEN S2
           ELSE [S2 EXCEPT !.comps[k].cached = S2.ret,
                           !.comps[k].hasCache = TRUE,
                           !.computedContextStack = Front(@)]

\* Faulty variant, for comparison: a propagateChanges that does not look at the batch stack
propagateChanges_unbatched(S, c) ==
  LET S1 == InvalidateAll(S, c) IN
  IF Len(S1.iters) >= MaxNest
  THEN [S1 EXCEPT !.err = StackOverflow]
  ELSE ForEachTrigger([S1 EXCEPT !.iters = Append(@, [cell |-> c, idx |-> 0])], c)

\* const propagateChanges = () => {...} of cell c
propagateChanges(S, c) ==
  LET S1 == InvalidateAll(S, c) IN
  IF Len(S1.batchContextStack) > 0
  THEN [S1 EXCEPT !.batchContextStack[Len(S1.batchContextStack)].triggers =
                     AddAll(@, S1.triggers[c])]
  ELSE IF Len(S1.iters) >= MaxNest
  THEN [S1 EXCEPT !.err = StackOverflow]
  ELSE ForEachTrigger([S1 EXCEPT !.iters = Append(@, [cell |-> c, idx |-> 0])], c)

\* triggers.forEach((fn) => fn()) over the live Set of cell c; the cursor of
\* this loop is the last entry of S.iters
ForEachTrigger(S, c) ==
  IF S.err # NoError THEN S
  ELSE LET it == Top(S.iters) IN
       IF it.idx >= Len(S.triggers[c])
       THEN [S EXCEPT !.iters = Front(@)]
       ELSE LET e  == S.triggers[c][it.idx + 1]
                S1 == [S EXCEPT !.iters[Len(S.iters)].idx = it.idx + 1]
            IN  ForEachTrigger(trigger(S1, e), c)

\* const trigger = () => { childEffects.forEach(e => e.destroy()); fn() }
trigger(S, e) ==
  EffectFn(DestroyEach(S, S.effs[e].childEffects, 1), e)

\* Faulty variant, for comparison: a set without the equality check
set_always(S, c, updated) ==
  IF WriteForbidden(S) THEN [S EXCEPT !.err = IllegalWrite]
  ELSE propagateChanges([S EXCEPT !.current[c] = updated], c)

\* const set = (updated) => {...} of cell c
set(S, c, updated) ==
  IF WriteForbidden(S) THEN [S EXCEPT !.err = IllegalWrite]
  ELSE IF isEqual(c, updated, S.current[c]) THEN S
  ELSE propagateChanges([S EXCEPT !.current[c] = updated], c)

\* const update = (updateFn) => { set(updateFn(current)) }
update(S, c, f) == set(S, c, updateFn(f, S.current[c]))

\* Faulty variant, for comparison: a mutate behind the guard that set has
mutate_guarded(S, c) ==
  IF WriteForbidden(S) THEN [S EXCEPT !.err = IllegalWrite]
  ELSE propagateChanges(S, c)

\* Faulty variant, for comparison: a mutate that goes through set, as an earlier draft did
mutate_set(S, c) == set(S, c, S.current[c])

\* const mutate = (mutateFn) => { mutateFn(current); propagateChanges() }
\* (the cells hold numbers, which mutateFn cannot change in place)
mutate(S, c) == propagateChanges(S, c)

\* export function effect(fn, options): the new effect's number is in ret
effect(S, d) ==
  LET ectx == S.effectContextStack
      parentContext == IF Len(ectx) > 0 THEN Top(ectx) ELSE 0
      id == Len(S.effs) + 1
      cold == \A k \in ReachComps(EffectDefs[d].fn) : ~ S.comps[k].hasCache
      S1 == [S EXCEPT !.effs = Append(@, NewEffect(d, cold, S.nwrites)),
                      !.effectContextStack = Append(@, id)]
      S2 == EffectFn(S1, id)
  IN  IF S2.err # NoError THEN S2
      ELSE [S2 EXCEPT
              !.effectContextStack = Front(@),
              !.effs = IF parentContext # 0
                       THEN [@ EXCEPT ![parentContext].childEffects = Append(@, id)]
                       ELSE @,
              !.ret = id]

\* the body of a user function, from instruction i on; acc is the sum of
\* the values read so far, self the effect whose fn this is (0: a computed)
RunFn(S, body, i, acc, self) ==
  IF S.err # NoError \/ i > Len(body) THEN [S EXCEPT !.ret = acc]
  ELSE LET ins == body[i]
           Count(T) == IF self = 0 THEN T
                       ELSE [T EXCEPT !.effs[self].attempts = @ + 1,
                                      !.effs[self].rejected =
                                         IF WriteForbidden(T) THEN @ + 1 ELSE @]
       IN
       CASE ins.op = "rd" ->
              LET R == getter(S, ins.c) IN
              RunFn(IF self = 0 THEN R
                    ELSE [R EXCEPT !.effs[self].lastRead = @ \cup {ins.c}],
                    body, i + 1, acc + S.current[ins.c], self)
         [] ins.op = "rdc" ->
              LET R == read(S, ins.k) IN RunFn(R, body, i + 1, acc + R.ret, self)
         [] ins.op = "newc" ->
              LET R == read([S EXCEPT !.comps = Append(@, NewComputed(ins.c))],
                            Len(S.comps) + 1)
              IN  RunFn(R, body, i + 1, acc + R.ret, self)
         [] ins.op = "set" ->
              RunFn(set(Count(S), ins.c, ins.k), body, i + 1, acc, self)
         [] ins.op = "upd" ->
              RunFn(update(Count(S), ins.c, "inc"), body, i + 1, acc, self)
         [] ins.op = "mut" ->
              RunFn(mutate(S, ins.c), body, i + 1, acc, self)
         [] ins.op = "child" ->
              RunFn(effect(S, ins.c), body, i + 1, acc, self)
         [] ins.op = "log" ->
              RunFn([S EXCEPT !.effs[self].log = Append(@, acc)], body, i + 1, acc, self)
         [] ins.op = "guard" ->
              IF acc = 0 THEN [S EXCEPT !.ret = acc]
              ELSE RunFn(S, body, i + 1, acc, self)

\* ------------------------------------------------------- top-level calls
\* the program state a top-level call leaves behind; an exception leaves
\* the stacks as they were when it was thrown
Commit(S) ==
  /\ current' = S.current
  /\ triggers' = S.triggers
  /\ cacheInvalidators' = S.cacheInvalidators
  /\ comps' = S.comps
  /\ effs' = S.effs
  /\ effectContextStack' = S.effectContextStack
  /\ computedContextStack' = S.computedContextStack
  /\ batchContextStack' = S.batchContextStack
  /\ ninv' = S.ninv
  /\ thrown' = S.err

Init ==
  /\ current = [c \in Cells |-> 0]
  /\ triggers = [c \in Cells |-> << >>]
  /\ cacheInvalidators = [c \in Cells |-> << >>]
  /\ comps = [k \in 1..Len(TopComputeds) |-> NewComputed(TopComputeds[k])]
  /\ effs = << >>
  /\ effectContextStack = << >>
  /\ computedContextStack = << >>
  /\ batchContextStack = << >>
  /\ thrown = NoError
  /\ handles = {}
  /\ destroyed = {}
  /\ ninv = 0
  /\ nwrites = 0

\* c.set(v)
Set(c, v) ==
  /\ nwrites < MaxWrites
  /\ Commit(set(State, c, v))
  /\ nwrites' = nwrites + 1
  /\ UNCHANGED << handles, destroyed >>

\* c.update(f)
Update(c, f) ==
  /\ nwrites < MaxWrites
  /\ Commit(update(State, c, f))
  /\ nwrites' = nwrites + 1
  /\ UNCHANGED << handles, destroyed >>

\* c.mutate(f)
Mutate(c) ==
  /\ nwrites < MaxWrites
  /\ Commit(mutate(State, c))
  /\ nwrites' = nwrites + 1
  /\ UNCHANGED << handles, destroyed >>

\* k(), for a computed k the top level declared
Read(k) ==
  LET S == read(State, k) IN
  /\ Commit(S)
  /\ UNCHANGED << handles, destroyed, nwrites >>

\* effect(fn_d, options_d); the caller keeps the EffectRef
CreateEffect(d) ==
  LET S == effect(State, d) IN
  /\ Len(effs) < MaxEffects
  /\ Commit(S)
  /\ handles' = IF S.err = NoError THEN handles \cup {S.ret} ELSE handles
  /\ UNCHANGED << destroyed, nwrites >>

\* e.destroy(), for an EffectRef the caller holds
Destroy(e) ==
  /\ e \in handles
  /\ Len(effs[e].destroyedAt) < MaxDestroys
  /\ Commit(destroy(State, e))
  /\ destroyed' = destroyed \cup {e}
  /\ UNCHANGED << handles, nwrites >>

\* batchSet(fn), up to the call of fn: the calls fn makes are the top-level
\* calls that follow
BatchBegin ==
  /\ Len(batchContextStack) < MaxBatch
  /\ batchContextStack' = Append(batchContextStack, [triggers |-> << >>])
  /\ thrown' = NoError
  /\ UNCHANGED << current, triggers, cacheInvalidators, comps, effs,
                  effectContextStack, computedContextStack, handles,
                  destroyed, ninv, nwrites >>

\* context.triggers.forEach(t => t()), the context being off the stack
RunPending(S, pending) ==
  LET Run[i \in 0..Len(pending)] ==
        IF i = 0 THEN S
        ELSE IF Run[i - 1].err # NoError THEN Run[i - 1]
        ELSE trigger(Run[i - 1], pending[i])
  IN  Run[Len(pending)]

\* batchSet(fn), from the return of fn on
BatchEnd ==
  /\ Len(batchContextStack) > 0
  /\ Commit(RunPending([State EXCEPT !.batchContextStack = Front(@)],
                       Top(batchContextStack).triggers))
  /\ UNCHANGED << handles, destroyed, nwrites >>

\* An application that reads its computeds and lets effects observe them.
Next ==
  \/ \E c \in Cells, v \in Val : Set(c, v)
  \/ \E c \in Cells, f \in {"inc", "id"} : Update(c, f)
  \/ \E c \in Cells : Mutate(c)
  \/ \E k \in {1, 3} : Read(k)
  \/ \E d \in {"eCC", "eD"} : CreateEffect(d)
  \/ \E e \in handles : Destroy(e)

Spec == Init /\ [][Next]_vars

\* An application that batches its writes.
NextBatch ==
  \/ \E c \in Cells, v \in Val : Set(c, v)
  \/ \E c \in Cells, f \in {"inc", "id"} : Update(c, f)
  \/ \E c \in Cells : Mutate(c)
  \/ \E d \in {"eA", "eAB", "eC"} : CreateEffect(d)
  \/ \E e \in handles : Destroy(e)
  \/ BatchBegin
  \/ BatchEnd

SpecBatch == Init /\ [][NextBatch]_vars

\* An application whose effects write to cells.
NextWrite ==
  \/ \E c \in Cells, v \in Val : Set(c, v)
  \/ \E c \in Cells, f \in {"inc", "id"} : Update(c, f)
  \/ \E c \in Cells : Mutate(c)
  \/ \E d \in {"eW", "eU", "eWA", "eCondW"} : CreateEffect(d)

SpecWrite == Init /\ [][NextWrite]_vars

\* An application whose effect declares a child effect.
NextNested ==
  \/ \E c \in Cells, v \in Val : Set(c, v)
  \/ \E c \in Cells, f \in {"inc", "id"} : Update(c, f)
  \/ \E c \in Cells : Mutate(c)
  \/ \E d \in {"eParent"} : CreateEffect(d)
  \/ \E e \in handles : Destroy(e)

SpecNested == Init /\ [][NextNested]_vars

\* An application that only reads its computeds, one of which declares a
\* computed inside its function.
NextComputed ==
  \/ \E c \in Cells, v \in Val : Set(c, v)
  \/ \E c \in Cells, f \in {"inc", "id"} : Update(c, f)
  \/ \E c \in Cells : Mutate(c)
  \/ \E k \in {1, 3, 4} : Read(k)

SpecComputed == Init /\ [][NextComputed]_vars

\* An application whose effect reads a cell behind a branch.
NextTrack ==
  \/ \E c \in Cells, v \in Val : Set(c, v)
  \/ \E c \in Cells, f \in {"inc", "id"} : Update(c, f)
  \/ \E c \in Cells : Mutate(c)
  \/ \E d \in {"eCondR", "eAB"} : CreateEffect(d)

SpecTrack == Init /\ [][NextTrack]_vars

\* An application in which one effect writes, with allowSignalWrites, the
\* cell another effect reads.
NextAttr ==
  \/ \E c \in Cells, v \in Val : Set(c, v)
  \/ \E c \in Cells, f \in {"inc", "id"} : Update(c, f)
  \/ \E c \in Cells : Mutate(c)
  \/ \E d \in {"eB", "eWA"} : CreateEffect(d)

SpecAttr == Init /\ [][NextAttr]_vars

\* An application that reads its computeds inside and outside batches.
NextBatchRead ==
  \/ \E c \in Cells, v \in Val : Set(c, v)
  \/ \E c \in Cells, f \in {"inc", "id"} : Update(c, f)
  \/ \E c \in Cells : Mutate(c)
  \/ \E k \in {1, 2, 3} : Read(k)
  \/ BatchBegin
  \/ BatchEnd

SpecBatchRead == Init /\ [][NextBatchRead]_vars

\* An application whose effects mutate or update a cell, in and out of
\* batches.
NextMutate ==
  \/ \E c \in Cells, v \in Val : Set(c, v)
  \/ \E c \in Cells, f \in {"inc", "id"} : Update(c, f)
  \/ \E c \in Cells : Mutate(c)
  \/ \E d \in {"eC", "eM", "eU"} : CreateEffect(d)
  \/ BatchBegin
  \/ BatchEnd

SpecMutate == Init /\ [][NextMutate]_vars

\* ------------------------------------------------------------ properties
\* the EffectRefs the top level holds and has not destroyed
Alive == handles \ destroyed

\* the function of the effect numbered e
FnOf(e) == EffectDefs[effs[e].def].fn

\* the body runs the same instructions whatever it reads
Steady(body) == \A i \in 1..Len(body) : body[i].op # "guard"

\* this step is a top-level set or update of cell c to an unequal value
\* (only such a call both counts as a write and changes the cell)
WroteUnequal(c) == nwrites' = nwrites + 1 /\ current'[c] # current[c]

\* C1: outside any batch, an unequal set/update of a cell re-runs exactly
\* once, before the call returns, every top-level effect whose body always
\* reads that cell (directly or through computeds its first run evaluated).
C1_PropagationOnce ==
  [][\A c \in Cells :
       (WroteUnequal(c) /\ batchContextStack = << >> /\ effectContextStack = << >>)
       => \A e \in Alive :
            (effs[e].cold /\ Steady(FnOf(e)) /\ c \in ReachCells(FnOf(e)))
            => effs'[e].runs = effs[e].runs + 1]_vars

\* C1 witness: an effect reading a chain of computeds has re-run on each of
\* two successive writes
C1_Witness ==
  \E e \in Alive :
    /\ effs[e].def = "eD" /\ effs[e].cold
    /\ nwrites - effs[e].born = 2
    /\ effs[e].runs = 3
    /\ Len(effs[e].log) = 3 /\ effs[e].log[2] # effs[e].log[3]

\* C3: the function of a computed runs only inside a read of that computed
\* and once per dirty period: a computed that holds a cache has run its
\* function once for every dirty period begun so far, a dirty one once for
\* every period but the current; while the cache stays, its value stays; and
\* a write that runs no effect body calls no function.
C3_Memoized ==
  /\ [](\A k \in DOMAIN comps :
          comps[k].evals = IF comps[k].hasCache THEN comps[k].periods
                           ELSE comps[k].periods - 1)
  /\ [][\A k \in DOMAIN comps :
          /\ (comps'[k].evals = comps[k].evals /\ comps[k].hasCache /\ comps'[k].hasCache)
             => comps'[k].cached = comps[k].cached
          /\ (nwrites' # nwrites /\ \A e \in DOMAIN effs : effs'[e].runs = effs[e].runs)
             => comps'[k].evals = comps[k].evals
          /\ (nwrites' # nwrites /\ comps'[k].evals # comps[k].evals)
             => \E e \in DOMAIN effs :
                  /\ effs'[e].runs > effs[e].runs
                  /\ k \in ReachComps(FnOf(e))]_vars

\* C3 witness: a computed read by the top level, by an effect and by another
\* computed is in its second dirty period and has run its function once
C3_Witness ==
  /\ comps[1].periods = 2 /\ comps[1].evals = 1 /\ ~ comps[1].hasCache
  /\ comps[3].evals = 2 /\ comps[3].hasCache
  /\ \E e \in Alive : effs[e].def = "eD" /\ effs[e].runs = 2

\* the value the function of a computed yields from the current cell values
RECURSIVE Value(_)
Value(body) ==
  LET V[i \in 0..Len(body)] ==
        IF i = 0 THEN 0
        ELSE V[i - 1] +
             CASE body[i].op = "rd"   -> current[body[i].c]
               [] body[i].op = "rdc"  -> Value(ComputedDefs[TopComputeds[body[i].k]])
               [] body[i].op = "newc" -> Value(ComputedDefs[body[i].c])
               [] OTHER -> 0
  IN  V[Len(body)]

\* C2 (as claimed): whatever was written, a read of a computed returns the
\* value its function yields from the current cell values
C2_CacheValid ==
  \A k \in 1..Len(TopComputeds) :
    read(State, k).ret = Value(ComputedDefs[TopComputeds[k]])

\* C6 (as claimed): an effect that read a computed from its cache when it
\* was created is re-run once by every unequal write to a cell upstream of
\* that computed, and effects created together over the same computed
\* record the same values
C6_LateBinding ==
  [][/\ \A c \in Cells :
          (WroteUnequal(c) /\ batchContextStack = << >> /\ effectContextStack = << >>)
          => \A e \in Alive :
               (~ effs[e].cold /\ Steady(FnOf(e)) /\ c \in ReachCells(FnOf(e)))
               => effs'[e].runs = effs[e].runs + 1
     /\ \A e1, e2 \in Alive :
          (effs[e1].def = effs[e2].def /\ effs[e1].born = effs[e2].born)
          => effs'[e1].log = effs'[e2].log]_vars

\* the trigger of effect e is in the pending set of an open batch
Pending(e) ==
  \E i \in 1..Len(batchContextStack) : e \in Range(batchContextStack[i].triggers)

\* C4: while the function of a single batch runs, a write runs no effect
\* body and makes the subscribers of the written cell pending; when the
\* function has returned, each pending effect runs exactly once and no other
C4_BatchCoalescing ==
  [][/\ (Len(batchContextStack) = 1 /\ Len(batchContextStack') = 1 /\ nwrites' # nwrites)
        => /\ \A e \in DOMAIN effs : effs'[e].runs = effs[e].runs
           /\ \A c \in Cells :
                current'[c] # current[c]
                => Range(triggers[c]) \subseteq Range(Top(batchContextStack').triggers)
     /\ (Len(batchContextStack) = 1 /\ batchContextStack' = << >>)
        => \A e \in DOMAIN effs :
             effs'[e].runs = effs[e].runs +
                IF e \in Range(Top(batchContextStack).triggers) THEN 1 ELSE 0]_vars

\* C4 witness: a batch wrote both cells an effect reads, and the effect has
\* run once for the two writes
C4_Witness ==
  \E e \in Alive :
    /\ effs[e].def = "eAB" /\ effs[e].born = 0 /\ nwrites = 2
    /\ current["a"] # 0 /\ current["b"] # 0
    /\ batchContextStack = << >>
    /\ effs[e].runs = 2

\* C5: a destroyed effect is subscribed to no cell, and unless its trigger
\* was already pending in an open batch when it was destroyed, its body
\* never runs again and it never becomes pending
C5_DestroyStops ==
  /\ [](\A e \in destroyed : \A c \in Cells : e \notin Range(triggers[c]))
  /\ [][\A e \in destroyed :
          ~ Pending(e) => (effs'[e].runs = effs[e].runs /\ ~ Pending(e)')]_vars

\* C5 witness: an effect bound late to a cached computed re-ran, was
\* destroyed, and a later write changed what it would have logged
C5_Witness ==
  \E e \in destroyed :
    /\ effs[e].def = "eC" /\ ~ effs[e].cold
    /\ effs[e].runs = 2 /\ Len(effs[e].log) = 2
    /\ effs[e].log[2] # current["a"] + current["b"]
    /\ batchContextStack = << >>

\* this step is a set or update whose new value the cell's equality function
\* reports equal to the current one
EqualWrite ==
  \E c \in Cells :
    \/ \E v \in Val : isEqual(c, v, current[c]) /\ Set(c, v)
    \/ \E f \in {"inc", "id"} :
         isEqual(c, updateFn(f, current[c]), current[c]) /\ Update(c, f)

\* C7: outside any effect, a set or update to an equal value changes no
\* cell, cache, dependent set or pending set and calls no invalidator and
\* no trigger
C7_EqualityShortCircuit ==
  [][(effectContextStack = << >> /\ EqualWrite)
     => /\ UNCHANGED << current, triggers, cacheInvalidators, comps, effs,
                        batchContextStack, ninv >>
        /\ thrown' = NoError]_vars

\* C7 witness: writes were made after an effect over both cells and a
\* computed's cache existed, outside a batch, and neither has moved
C7_Witness ==
  /\ batchContextStack = << >>
  /\ nwrites = 2
  /\ \E e \in Alive : effs[e].def = "eAB" /\ effs[e].born = 0 /\ effs[e].runs = 1
  /\ \E e \in Alive : effs[e].def = "eC" /\ effs[e].born = 0 /\ effs[e].runs = 1
  /\ comps[2].hasCache /\ comps[2].periods = 1 /\ ninv = 0

NoDuplicates(s) == \A i, j \in 1..Len(s) : s[i] = s[j] => i = j

C8_WriteGuard ==
  \A e \in DOMAIN effs :
    IF EffectDefs[effs[e].def].allowSignalWrites
    THEN effs[e].rejected = 0
    ELSE effs[e].rejected = effs[e].attempts

\* C9 (as claimed): once the only parent effect has re-run, however often,
\* the cell its child reads holds the trigger of exactly one child
C9_OneChild ==
  \A p \in Alive :
    ( /\ effs[p].def = "eParent" /\ effs[p].runs >= 2
      /\ \A q \in DOMAIN effs : effs[q].def = "eParent" => q = p )
    => Cardinality({ e \in Range(triggers["b"]) : effs[e].def = "eB" }) = 1

\* C11 (as claimed): while the function of the outermost batch has not
\* returned, no body of an existing effect runs, whatever inner batch closes
C11_NestedFlatten ==
  [][(Len(batchContextStack) >= 1 /\ Len(batchContextStack') >= 1)
     => \A e \in DOMAIN effs : effs'[e].runs = effs[e].runs]_vars

\* C12 (as claimed): once destroy() has returned on an effect, the body of a
\* child effect it owns never runs again
C12_ParentDestroysChildren ==
  [][\A p \in destroyed : \A q \in Range(effs[p].childEffects) :
       effs'[q].runs = effs[q].runs]_vars

\* this step is a top-level set, update or mutate call on cell c
WriteTo(c) ==
  \/ \E v \in Val : Set(c, v)
  \/ \E f \in {"inc", "id"} : Update(c, f)
  \/ Mutate(c)

\* C13: the effects one unbatched write re-runs run in the order of their
\* first registration on the written cell; a write inside a batch leaves the
\* triggers already pending in place and puts the newly pending ones behind
\* them, in the order of their first registration on the written cell; and
\* the close of a batch runs the pending triggers in that pending order
C13_TriggerOrder ==
  [][/\ \A c \in Cells :
          (WriteTo(c) /\ batchContextStack = << >> /\ effectContextStack = << >>)
          => \A e1, e2 \in DOMAIN effs :
               ( /\ effs'[e1].runs > effs[e1].runs
                 /\ effs'[e2].runs > effs[e2].runs
                 /\ effs[e1].firstSub[c] < effs[e2].firstSub[c] )
               => effs'[e1].ranAt < effs'[e2].ranAt
     /\ \A c \in Cells :
          (WriteTo(c) /\ Len(batchContextStack) >= 1 /\ effectContextStack = << >>)
          => LET old == Top(batchContextStack).triggers
                 new == Top(batchContextStack').triggers
             IN  /\ Len(new) >= Len(old)
                 /\ SubSeq(new, 1, Len(old)) = old
                 /\ \A i, j \in (Len(old) + 1)..Len(new) :
                      i < j => effs[new[i]].firstSub[c] < effs[new[j]].firstSub[c]
     /\ (Len(batchContextStack) >= 1 /\ Len(batchContextStack') = Len(batchContextStack) - 1)
        => LET p == Top(batchContextStack).triggers IN
           \A i, j \in 1..Len(p) :
             i < j => /\ TotalRuns(State) < effs'[p[i]].ranAt
                      /\ effs'[p[i]].ranAt < effs'[p[j]].ranAt]_vars

\* C13 witness: a batch wrote b and then a; the effect registered second,
\* which reads b, became pending first and ran first at the close
C13_Witness ==
  /\ batchContextStack = << >>
  /\ \E e1, e2 \in Alive :
       /\ effs[e1].def = "eA" /\ effs[e2].def = "eAB"
       /\ effs[e1].firstSub["a"] < effs[e2].firstSub["a"]
       /\ effs[e1].runs = 2 /\ effs[e2].runs = 2
       /\ effs[e2].ranAt < effs[e1].ranAt

\* C14: a destroy() call on an effect that was destroyed before changes no
\* cell, dependent set, invalidator list, cache, stack or pending set, and
\* nothing of any effect
C14_DestroyIdempotent ==
  [][\A e \in destroyed :
       Destroy(e)
       => /\ UNCHANGED << current, triggers, cacheInvalidators, comps,
                          effectContextStack, computedContextStack,
                          batchContextStack, ninv, handles >>
          /\ effs' = [effs EXCEPT ![e].destroyedAt = Append(@, effs[e].runs)]
          /\ thrown' = NoError]_vars

\* C14 witness: an effect was destroyed twice, and another effect that
\* registered on the same cell after it is still subscribed there
C14_Witness ==
  \E e \in destroyed, e2 \in Alive :
    /\ Len(effs[e].destroyedAt) = 2
    /\ effs[e].firstSub["a"] > 0
    /\ effs[e2].firstSub["a"] > effs[e].firstSub["a"]
    /\ triggers["a"] = << e2 >>

\* C15 (as claimed): once an effect has re-run, the cells whose dependent
\* set holds its trigger are the cells its latest run read
C15_Retracked ==
  \A e \in Alive :
    effs[e].runs >= 2
    => { c \in Cells : e \in Range(triggers[c]) } = effs[e].lastRead

\* C16 (as claimed): when a top-level call has finished, by returning or by
\* throwing, the effect, computed and batch context stacks are empty (the
\* application makes no batchSet call here)
C16_StacksRestored ==
  /\ effectContextStack = << >>
  /\ computedContextStack = << >>
  /\ batchContextStack = << >>

\* C17 (as claimed): a cell's dependent set holds only triggers of effects
\* whose own body reads that cell
C17_ReadsAttributed ==
  \A c \in Cells : \A e \in Range(triggers[c]) : c \in ReachCells(FnOf(e))

\* C18 (as claimed): right after an unequal write made inside a batch, a
\* read of any computed that depends on the written cell returns the value
\* its function yields from the new cell values
C18_InvalidationNotDeferred ==
  [][\A c \in Cells :
       (WroteUnequal(c) /\ Len(batchContextStack) >= 1 /\ effectContextStack = << >>)
       => \A k \in 1..Len(TopComputeds) :
            c \in ReachCells(ComputedDefs[TopComputeds[k]])
            => (read(State, k).ret = Value(ComputedDefs[TopComputeds[k]]))']_vars

\* C19: destroy() on an effect whose trigger is pending in an open batch
\* leaves the pending sets as they are, and the close of a batch runs the
\* body of a destroyed effect that is pending in it exactly once, the effect
\* being in no dependent set before or after
C19_DestroyKeepsPending ==
  /\ [][\A e \in DOMAIN effs :
          (Pending(e) /\ Destroy(e)) => batchContextStack' = batchContextStack]_vars
  /\ [][(Len(batchContextStack) >= 1
           /\ Len(batchContextStack') = Len(batchContextStack) - 1)
        => \A e \in destroyed :
             /\ effs'[e].runs = effs[e].runs +
                  IF e \in Range(Top(batchContextStack).triggers) THEN 1 ELSE 0
             /\ \A c \in Cells : e \notin Range(triggers[c])
             /\ \A c \in Cells : e \notin Range(triggers'[c])]_vars

\* C19 witness: an effect destroyed after its first run, while pending in a
\* batch, has run a second time and all batches are closed
C19_Witness ==
  \E e \in destroyed :
    /\ effs[e].def = "eA"
    /\ effs[e].destroyedAt[1] = 1
    /\ effs[e].runs = 2 /\ Len(effs[e].log) = 2
    /\ batchContextStack = << >>

\* this step is the call effect(fn_d, options_d)
Creates(d) == Len(effs') = Len(effs) + 1 /\ effs'[Len(effs')].def = d

====
